---- MODULE Spec2Model ----
(***************************************************************************)
(* test-kimi-py.py: a script that loads KEY=VALUE lines of ".env" into the *)
(* process environment, resolves NVIDIA_API_KEY_KIMI, posts one chat       *)
(* completion request and prints the response (line by line when the       *)
(* stream flag is set, as one parsed JSON document otherwise).             *)
(*                                                                         *)
(* Text of the credentials file is a sequence of one-character strings;    *)
(* a response body is a sequence of bytes (0..255); decoded text is a      *)
(* sequence of code points.                                                *)
(***************************************************************************)
EXTENDS Integers, Sequences, FiniteSets, TLC

VARIABLES
    initEnv,     \* os.environ when the process starts (never changes)
    envFile,     \* the file ".env": its lines, and where reading it fails
    endpoint,    \* what the server does with the one request
    stream,      \* the flag of line 22
    env,         \* os.environ
    idx,         \* the line of ".env" the loop of line 9 is at
    api_key,     \* line 16
    sent,        \* the HTTP requests that went out, in order
    pos,         \* the line of the response the loop of line 46 is at
    out,         \* what was printed, in order
    exitStatus,  \* the process exit status once pc = "done"
    pc

vars == <<initEnv, envFile, endpoint, stream, env, idx, api_key, sent, pos,
          out, exitStatus, pc>>

inputs == <<initEnv, envFile, endpoint, stream>>

----------------------------------------------------------------------------
(* Bounds *)

\* Most lines in a credentials file.
MaxEnvLines == 2

\* Most lines in a response body built from BodyLines.
MaxBodyLines == 2

\* Most redirects in a chain that ends in a response (or a refused connection).
MaxRedirects == 2

----------------------------------------------------------------------------
(* Text (str) *)

\* The character U+0000.
NUL == "NUL"

\* str.isspace() for the characters used here.
IsSpace(c) == c \in {" ", "\t", "\n", "\r"}

RECURSIVE LStrip(_)
LStrip(s) ==
    IF s # <<>> /\ IsSpace(Head(s)) THEN LStrip(Tail(s)) ELSE s

RECURSIVE RStrip(_)
RStrip(s) ==
    IF s # <<>> /\ IsSpace(s[Len(s)]) THEN RStrip(SubSeq(s, 1, Len(s) - 1)) ELSE s

\* str.strip()
Strip(s) == RStrip(LStrip(s))

\* str.startswith(c) for a one-character c
StartsWith(s, c) == s # <<>> /\ Head(s) = c

\* c in s
Contains(s, c) == \E i \in 1..Len(s) : s[i] = c

\* The index of the first c in s (s contains c).
FirstIndex(s, c) == CHOOSE i \in 1..Len(s) : s[i] = c /\ \A j \in 1..(i - 1) : s[j] # c

\* s.split(c, 1) for an s that contains c: <<before, after>>
SplitFirst(s, c) ==
    <<SubSeq(s, 1, FirstIndex(s, c) - 1), SubSeq(s, FirstIndex(s, c) + 1, Len(s))>>

\* s[:n]
Take(s, n) == SubSeq(s, 1, IF n < Len(s) THEN n ELSE Len(s))

----------------------------------------------------------------------------
(* The environment loader, lines 7-14 *)

\* The name of the required variable.
KEY == <<"N", "V", "I", "D", "I", "A", "_", "A", "P", "I", "_", "K", "E", "Y",
         "_", "K", "I", "M", "I">>

\* The condition of line 10, on the line as read (its newline included).
Assigns(line) ==
    Strip(line) # <<>> /\ ~StartsWith(line, "#") /\ Contains(line, "=")

\* Line 11: key, value = line.strip().split("=", 1)
KeyOf(line) == SplitFirst(Strip(line), "=")[1]
ValueOf(line) == SplitFirst(Strip(line), "=")[2]

\* os.environ[key] = value raises (OSError for an empty name, ValueError for
\* an embedded null byte).
Rejected(key, value) ==
    key = <<>> \/ Contains(key, NUL) \/ Contains(value, NUL)

\* os.environ[key] = value, for a pair that is not rejected.
PutEnv(e, key, value) ==
    [k \in DOMAIN e \cup {key} |-> IF k = key THEN value ELSE e[k]]

\* print(...): one more entry of the output, tagged with the print statement
\* that wrote it ("warning" line 14, "missing" line 18, "banner" line 39,
\* "line" line 49, "json" line 51, "error" line 54).
Printed(site, text) == Append(out, [site |-> site, text |-> text])

----------------------------------------------------------------------------
(* Bytes and decoding, lines 46-48 *)

IsCont(b) == b \in 128..191

\* The number of bytes of the UTF-8 sequence b starts with, 0 when it starts
\* with none (bytes.decode("utf-8") is strict: no overlong forms, no
\* surrogates, nothing above U+10FFFF).
Utf8Width(b) ==
    LET b1 == b[1] IN
    IF b1 < 128 THEN 1
    ELSE IF b1 \in 194..223 /\ Len(b) >= 2 /\ IsCont(b[2]) THEN 2
    ELSE IF /\ b1 \in 224..239 /\ Len(b) >= 3 /\ IsCont(b[2]) /\ IsCont(b[3])
            /\ (b1 = 224 => b[2] >= 160) /\ (b1 = 237 => b[2] <= 159) THEN 3
    ELSE IF /\ b1 \in 240..244 /\ Len(b) >= 4
            /\ IsCont(b[2]) /\ IsCont(b[3]) /\ IsCont(b[4])
            /\ (b1 = 240 => b[2] >= 144) /\ (b1 = 244 => b[2] <= 143) THEN 4
    ELSE 0

\* The code point of the n-byte sequence b starts with.
CodePoint(b, n) ==
    CASE n = 1 -> b[1]
      [] n = 2 -> (b[1] - 192) * 64 + (b[2] - 128)
      [] n = 3 -> (b[1] - 224) * 4096 + (b[2] - 128) * 64 + (b[3] - 128)
      [] n = 4 -> (b[1] - 240) * 262144 + (b[2] - 128) * 4096
                  + (b[3] - 128) * 64 + (b[4] - 128)

\* line.decode("utf-8"): ok is FALSE where it raises UnicodeDecodeError.
RECURSIVE Utf8Decode(_)
Utf8Decode(b) ==
    IF b = <<>> THEN [ok |-> TRUE, text |-> <<>>]
    ELSE LET n == Utf8Width(b) IN
         IF n = 0 THEN [ok |-> FALSE, text |-> <<>>]
         ELSE LET rest == Utf8Decode(SubSeq(b, n + 1, Len(b))) IN
              [ok |-> rest.ok,
               text |-> IF rest.ok THEN <<CodePoint(b, n)>> \o rest.text ELSE <<>>]

IsLineEnd(b) == b \in {10, 13}

\* bytes.splitlines(): the lines of b without their terminators (\n, \r or
\* \r\n); a terminator at the very end opens no further line.
RECURSIVE SplitLinesFrom(_, _)
SplitLinesFrom(b, cur) ==
    IF b = <<>> THEN (IF cur = <<>> THEN <<>> ELSE <<cur>>)
    ELSE IF Head(b) = 13 /\ Len(b) >= 2 /\ b[2] = 10
         THEN <<cur>> \o SplitLinesFrom(Tail(Tail(b)), <<>>)
    ELSE IF IsLineEnd(Head(b)) THEN <<cur>> \o SplitLinesFrom(Tail(b), <<>>)
    ELSE SplitLinesFrom(Tail(b), Append(cur, Head(b)))

SplitLines(b) == SplitLinesFrom(b, <<>>)

\* A variant of IterLines that also yields the unfinished last line of a
\* connection whose drop is reported.
IterLinesWithPending(b, raising) == SplitLines(b)

\* What response.iter_lines() yields of the bytes that were handed over:
\* every line of them when the body ended there (the server closed the
\* connection, or it dropped and the library took that for the end), and
\* without the unfinished last line (kept pending) when the library raises
\* for the drop. (Where a chunk boundary falls between \r and \n the library
\* yields one more empty line, which line 47 skips like every empty line.)
IterLines(b, raising) ==
    LET ls == SplitLines(b) IN
    IF raising /\ b # <<>> /\ ~IsLineEnd(b[Len(b)])
    THEN SubSeq(ls, 1, Len(ls) - 1)
    ELSE ls

----------------------------------------------------------------------------
(* JSON, line 51: response.json() and the text print() writes for it.      *)
(* Documents here are built of arrays, objects, strings without escapes,   *)
(* unsigned integers and true/false/null.                                  *)

IsJsonWs(b) == b \in {32, 9, 10, 13}
IsDigit(b) == b \in 48..57

RECURSIVE SkipWs(_, _)
SkipWs(b, i) == IF i <= Len(b) /\ IsJsonWs(b[i]) THEN SkipWs(b, i + 1) ELSE i

RECURSIVE DigitsEnd(_, _)
DigitsEnd(b, i) == IF i <= Len(b) /\ IsDigit(b[i]) THEN DigitsEnd(b, i + 1) ELSE i

\* The value of the decimal digits b[i..j-1].
RECURSIVE DigitsValue(_, _, _)
DigitsValue(b, i, j) ==
    IF j <= i THEN 0 ELSE DigitsValue(b, i, j - 1) * 10 + (b[j - 1] - 48)

\* The index of the quote closing the string whose text starts at i, 0 when
\* there is none.
RECURSIVE StringEnd(_, _)
StringEnd(b, i) ==
    IF i > Len(b) THEN 0
    ELSE IF b[i] = 34 THEN i
    ELSE IF b[i] = 92 \/ b[i] < 32 \/ b[i] > 126 THEN 0
    ELSE StringEnd(b, i + 1)

StartsAt(b, i, w) == i + Len(w) - 1 <= Len(b) /\ SubSeq(b, i, i + Len(w) - 1) = w

JsonFail == [ok |-> FALSE, val |-> [t |-> "none"], next |-> 0]
JsonOk(v, n) == [ok |-> TRUE, val |-> v, next |-> n]

\* dict[key] = value: a repeated key keeps its place and takes the new value.
DictPut(d, k, v) ==
    IF \E i \in 1..Len(d.keys) : d.keys[i] = k
    THEN [d EXCEPT !.vals = [i \in 1..Len(d.vals) |->
                                 IF d.keys[i] = k THEN v ELSE d.vals[i]]]
    ELSE [d EXCEPT !.keys = Append(d.keys, k), !.vals = Append(d.vals, v)]

RECURSIVE ParseValue(_, _), ParseItems(_, _, _), ParseMembers(_, _, _)

\* The JSON value that starts at b[i]: [ok, val, next], next the index after it.
ParseValue(b, i) ==
    IF i > Len(b) THEN JsonFail
    ELSE IF b[i] = 34 THEN
        LET e == StringEnd(b, i + 1) IN
        IF e = 0 THEN JsonFail
        ELSE JsonOk([t |-> "str", s |-> SubSeq(b, i + 1, e - 1)], e + 1)
    ELSE IF b[i] = 91 THEN
        LET j == SkipWs(b, i + 1) IN
        IF j <= Len(b) /\ b[j] = 93 THEN JsonOk([t |-> "list", items |-> <<>>], j + 1)
        ELSE ParseItems(b, j, <<>>)
    ELSE IF b[i] = 123 THEN
        LET j == SkipWs(b, i + 1) IN
        IF j <= Len(b) /\ b[j] = 125
        THEN JsonOk([t |-> "dict", keys |-> <<>>, vals |-> <<>>], j + 1)
        ELSE ParseMembers(b, j, [t |-> "dict", keys |-> <<>>, vals |-> <<>>])
    ELSE IF b[i] = 48 THEN JsonOk([t |-> "int", n |-> 0], i + 1)
    ELSE IF IsDigit(b[i]) THEN
        JsonOk([t |-> "int", n |-> DigitsValue(b, i, DigitsEnd(b, i))], DigitsEnd(b, i))
    ELSE IF StartsAt(b, i, <<116, 114, 117, 101>>) THEN JsonOk([t |-> "true"], i + 4)
    ELSE IF StartsAt(b, i, <<102, 97, 108, 115, 101>>) THEN JsonOk([t |-> "false"], i + 5)
    ELSE IF StartsAt(b, i, <<110, 117, 108, 108>>) THEN JsonOk([t |-> "null"], i + 4)
    ELSE JsonFail

\* The items of an array from b[i] on (after "[" or ","), acc those before.
ParseItems(b, i, acc) ==
    LET r == ParseValue(b, i) IN
    IF ~r.ok THEN JsonFail
    ELSE LET j == SkipWs(b, r.next) IN
         IF j > Len(b) THEN JsonFail
         ELSE IF b[j] = 93 THEN JsonOk([t |-> "list", items |-> Append(acc, r.val)], j + 1)
         ELSE IF b[j] = 44 THEN ParseItems(b, SkipWs(b, j + 1), Append(acc, r.val))
         ELSE JsonFail

\* The members of an object from b[i] on (after "{" or ","), d those before.
ParseMembers(b, i, d) ==
    IF i > Len(b) \/ b[i] # 34 THEN JsonFail
    ELSE LET e == StringEnd(b, i + 1) IN
         IF e = 0 THEN JsonFail
         ELSE LET c == SkipWs(b, e + 1) IN
              IF c > Len(b) \/ b[c] # 58 THEN JsonFail
              ELSE LET r == ParseValue(b, SkipWs(b, c + 1)) IN
                   IF ~r.ok THEN JsonFail
                   ELSE LET j == SkipWs(b, r.next)
                            d2 == DictPut(d, SubSeq(b, i + 1, e - 1), r.val)
                        IN IF j > Len(b) THEN JsonFail
                           ELSE IF b[j] = 125 THEN JsonOk(d2, j + 1)
                           ELSE IF b[j] = 44 THEN ParseMembers(b, SkipWs(b, j + 1), d2)
                           ELSE JsonFail

\* json.loads of the body: one value, whitespace around it, nothing else.
JsonLoads(b) ==
    LET r == ParseValue(b, SkipWs(b, 1)) IN
    IF r.ok /\ SkipWs(b, r.next) = Len(b) + 1 THEN r ELSE JsonFail

\* The decimal digits of n.
RECURSIVE Digits(_)
Digits(n) == IF n < 10 THEN <<48 + n>> ELSE Digits(n \div 10) \o <<48 + (n % 10)>>

\* repr(str): single quotes, double quotes when the text holds a single one.
ReprStr(s) ==
    IF \E i \in 1..Len(s) : s[i] = 39 THEN <<34>> \o s \o <<34>> ELSE <<39>> \o s \o <<39>>

RECURSIVE Repr(_), ReprItems(_, _), ReprMembers(_, _)

\* repr(value), in code points.
Repr(v) ==
    CASE v.t = "int" -> Digits(v.n)
      [] v.t = "str" -> ReprStr(v.s)
      [] v.t = "true" -> <<84, 114, 117, 101>>
      [] v.t = "false" -> <<70, 97, 108, 115, 101>>
      [] v.t = "null" -> <<78, 111, 110, 101>>
      [] v.t = "list" -> <<91>> \o ReprItems(v.items, 1) \o <<93>>
      [] v.t = "dict" -> <<123>> \o ReprMembers(v, 1) \o <<125>>

ReprItems(items, i) ==
    IF i > Len(items) THEN <<>>
    ELSE (IF i > 1 THEN <<44, 32>> ELSE <<>>) \o Repr(items[i]) \o ReprItems(items, i + 1)

ReprMembers(d, i) ==
    IF i > Len(d.keys) THEN <<>>
    ELSE (IF i > 1 THEN <<44, 32>> ELSE <<>>) \o ReprStr(d.keys[i]) \o <<58, 32>>
         \o Repr(d.vals[i]) \o ReprMembers(d, i + 1)

\* What print(value) writes: str(value), which is the text itself for a string.
PyStr(v) == IF v.t = "str" THEN v.s ELSE Repr(v)

----------------------------------------------------------------------------
(* Inputs: the process environment, the credentials file, the endpoint *)

\* All sequences of at most n elements of S.
RECURSIVE SeqsUpTo(_, _)
SeqsUpTo(S, n) ==
    IF n = 0 THEN {<<>>}
    ELSE LET shorter == SeqsUpTo(S, n - 1) IN
         shorter \cup {Append(q, x) : q \in {r \in shorter : Len(r) = n - 1}, x \in S}

\* A line of the file as the loop of line 9 reads it: with its newline.
Ln(s) == Append(s, "\n")

\* Lines of a credentials file: empty and blank lines, comments (indented or
\* not, with "=" or without), assignments (padded, with an empty value, with
\* "=" in the value, with an empty name, with a NUL), a line without "=",
\* and the required variable (set, and set to nothing).
EnvLines ==
    { Ln(<<>>), Ln(<<" ", " ">>),
      Ln(<<"#", "A", "=", "B">>), Ln(<<" ", "#", "A", "=", "B">>),
      Ln(<<" ", "#", " ", "c">>),
      Ln(<<"A", "=", "B">>), Ln(<<"A", "=">>), Ln(<<" ", "A", " ", "=", " ", "B", " ">>),
      Ln(<<"A", "=", "B", "=", "C">>), Ln(<<"=", "B">>), Ln(<<"A">>),
      Ln(<<"A", "=", NUL>>),
      Ln(KEY \o <<"=", "a", "b", "c", "1", "2", "3">>), Ln(KEY \o <<"=">>) }

\* A credentials file: its lines, and whether reading it fails (fails) after
\* `readable` of them were read (0: it cannot be opened, or not read at all).
EnvFiles(lineSet, n) ==
    UNION { { [lines |-> ls, fails |-> FALSE, readable |-> Len(ls)] }
            \cup { [lines |-> ls, fails |-> TRUE, readable |-> r] : r \in 0..Len(ls) } :
            ls \in SeqsUpTo(lineSet, n) }

\* The value of the required variable in a process environment that has it.
EnvKeyValue == <<"n", "v", "a", "p", "i", "-", "0", "1", "2", "3", "4", "5", "6">>

\* Process environments: without the required variable, with it empty, with
\* it set, and with it set next to a variable the file may assign.
InitEnvs ==
    { <<>>,
      [k \in {KEY} |-> <<>>],
      [k \in {KEY} |-> EnvKeyValue],
      [k \in {KEY, <<"A">>} |-> IF k = KEY THEN EnvKeyValue ELSE <<"o", "l", "d">>] }

\* Lines of a response body: empty, ASCII, a two-byte character, a truncated
\* two-byte character (not UTF-8), and pieces of JSON documents.
BodyLines ==
    { <<>>, <<97>>, <<195, 169>>, <<195>>,
      <<91, 32, 93>>, <<91, 49, 44, 50, 93>>, <<34, 104, 105, 34>>, <<91>>, <<93>> }

\* The lines ls, each ended by the terminator nl.
RECURSIVE JoinLines(_, _)
JoinLines(ls, nl) ==
    IF ls = <<>> THEN <<>> ELSE Head(ls) \o nl \o JoinLines(Tail(ls), nl)

\* data: {"id":1} and data: {"id":2}, each followed by an empty line, and
\* {"choices":[{"message":{"content":"hi"}}]}
ExampleBodies ==
    { JoinLines(<<<<100, 97, 116, 97, 58, 32, 123, 34, 105, 100, 34, 58, 49, 125>>, <<>>,
                  <<100, 97, 116, 97, 58, 32, 123, 34, 105, 100, 34, 58, 50, 125>>, <<>>>>,
                <<10>>),
      <<123, 34, 99, 104, 111, 105, 99, 101, 115, 34, 58, 91, 123, 34, 109, 101,
        115, 115, 97, 103, 101, 34, 58, 123, 34, 99, 111, 110, 116, 101, 110, 116,
        34, 58, 34, 104, 105, 34, 125, 125, 93, 125>>,
      JoinLines(<<<<97>>, <<195>>>>, <<13, 10>>) }

Bodies ==
    {JoinLines(ls, <<10>>) : ls \in SeqsUpTo(BodyLines, MaxBodyLines)} \cup ExampleBodies

\* Statuses of the response requests.post returns (a 3xx without a Location
\* header, like 300 here, is returned as it is).
Statuses == {200, 300, 401, 503}

\* The statuses that, with a Location header, the library follows (line 42
\* leaves allow_redirects at its default).
RedirectStatuses == {301, 302, 303, 307, 308}

\* The most redirects the library follows in one call (max_redirects of the
\* session requests.post creates).
RedirectLimit == 30

\* The URL of line 21.
invoke_url == "https://integrate.api.nvidia.com/v1/chat/completions"

\* Where a redirect may point: the same server, another server.
Locations ==
    { "https://integrate.api.nvidia.com/v2/chat/completions",
      "https://api.example.com/v1/chat/completions" }

\* The host name of a URL.
Host(url) ==
    IF url = "https://api.example.com/v1/chat/completions"
    THEN "api.example.com"
    ELSE "integrate.api.nvidia.com"

\* A response that redirects: its status and its Location header.
Hops == [status : RedirectStatuses, location : Locations]

\* What the server does. hops: the redirects that answer the first requests,
\* one each. Then the connection fails before any response (refused), or a
\* response with this status and body arrives, of which `received` bytes are
\* handed over; dropped: the connection broke after them, instead of the
\* server closing it at the end of the body. What a drop does depends on the
\* framing and on the HTTP library of the build (raises): with chunked
\* framing, or under a urllib3 that enforces Content-Length, reading raises
\* ChunkedEncodingError; under Content-Length framing with a urllib3 that
\* does not enforce it, the body just ends at the bytes received.
Refused ==
    [hops |-> <<>>, refused |-> TRUE, status |-> 0, body |-> <<>>,
     dropped |-> FALSE, raises |-> FALSE, received |-> 0]

Response(st, b, d, r, n) ==
    [hops |-> <<>>, refused |-> FALSE, status |-> st, body |-> b, dropped |-> d,
     raises |-> r, received |-> n]

\* The endpoint e behind the redirects hs.
Redirected(hs, e) == [e EXCEPT !.hops = hs]

\* A server that answers every request with the redirect h.
Endless(h) ==
    Redirected([i \in 1..(RedirectLimit + 1) |-> h], Response(h.status, <<>>, FALSE, FALSE, 0))

\* What a chain of redirects leads to: a refused connection, or [1,2] with
\* status 200 or 401.
Targets ==
    {Refused} \cup {Response(st, <<91, 49, 44, 50, 93>>, FALSE, FALSE, 5) : st \in {200, 401}}

Endpoints ==
    {Refused}
    \cup {Response(st, b, FALSE, FALSE, Len(b)) : st \in Statuses, b \in Bodies}
    \cup UNION { {Response(200, b, TRUE, r, n) : r \in BOOLEAN, n \in 0..(Len(b) - 1)} :
                 b \in Bodies }
    \cup {Redirected(hs, e) : hs \in SeqsUpTo(Hops, MaxRedirects) \ {<<>>}, e \in Targets}
    \cup {Endless(h) : h \in Hops}

----------------------------------------------------------------------------
(* The program *)

\* os.environ.get(name): None, or the value.
None == [some |-> FALSE, value |-> <<>>]
EnvGet(e, name) ==
    IF name \in DOMAIN e THEN [some |-> TRUE, value |-> e[name]] ELSE None

\* A variant of Missing that tests `api_key is None`.
MissingNoneOnly(k) == ~k.some

\* not api_key (line 17): None, or the empty string.
Missing(k) == ~k.some \/ k.value = <<>>

\* Lines 24-37 and 42: the request requests.post sends first.
Request(k, st) ==
    [method |-> "POST",
     url |-> invoke_url,
     authorization |-> <<"B", "e", "a", "r", "e", "r", " ">> \o k.value,
     accept |-> IF st THEN "text/event-stream" ELSE "application/json",
     model |-> "moonshotai/kimi-k2.5",
     stream |-> st,
     timeout |-> 30]

\* No Authorization header; no body.
NoHeader == <<>>
NoBody == ""

\* The request the library sends after the redirect h answered the request
\* r: to the Location; as a GET without the body unless the status is 307 or
\* 308; without the Authorization header once the host changes.
FollowUp(r, h) ==
    [r EXCEPT
       !.url = h.location,
       !.method = IF h.status \in {307, 308} THEN r.method ELSE "GET",
       !.model = IF h.status \in {307, 308} THEN r.model ELSE NoBody,
       !.authorization = IF Host(h.location) = Host(r.url) THEN r.authorization
                         ELSE NoHeader]

\* The requests that go out in the one call of line 42: r, and one more for
\* each redirect followed.
RECURSIVE Requests(_, _, _)
Requests(r, hs, n) ==
    IF hs = <<>> \/ n = 0 THEN <<r>>
    ELSE <<r>> \o Requests(FollowUp(r, Head(hs)), Tail(hs), n - 1)

\* response.raise_for_status() raises HTTPError (line 43).
RaisesForStatus(st) == st \in 400..599

\* A variant of Truthy that lets empty lines through.
TruthyAlways(line) == TRUE

\* if line: (line 47)
Truthy(line) == line # <<>>

\* A variant of WarnAndContinue that gives up after the warning.
WarnAndExit(e) ==
    /\ out' = Printed("warning", e)
    /\ pc' = "done"
    /\ exitStatus' = 1

\* except Exception as e (lines 13-14): a warning, and on to line 16.
WarnAndContinue(e) ==
    /\ out' = Printed("warning", e)
    /\ pc' = "resolve"
    /\ exitStatus' = exitStatus

\* A variant of Except that exits with status 1 after the error.
ExceptExit1(e) ==
    /\ out' = Printed("error", e)
    /\ pc' = "done"
    /\ exitStatus' = 1

\* except Exception as e (lines 53-54): the error is printed and the script
\* runs off its end.
Except(e) ==
    /\ out' = Printed("error", e)
    /\ pc' = "done"
    /\ exitStatus' = 0

\* The script runs off its end.
Finish ==
    /\ pc' = "done"
    /\ exitStatus' = 0

\* The bytes of the body that the library hands over (response.content, or
\* what iter_lines reads).
Content == Take(endpoint.body, endpoint.received)

\* The library raises for a connection that dropped.
DropRaises == endpoint.dropped /\ endpoint.raises

\* The server redirects more often than the library follows.
TooManyRedirects == Len(endpoint.hops) > RedirectLimit

\* The requests the call of line 42 sends.
SentByPost == Requests(Request(api_key, stream), endpoint.hops, RedirectLimit)

\* A variant of RenderJson that prints the text of the body (response.text)
\* once it has parsed.
RenderJsonText ==
    LET r == JsonLoads(Content) IN
    IF r.ok THEN out' = Printed("json", Utf8Decode(Content).text) /\ Finish
    ELSE Except("JSONDecodeError")

\* Lines 50-51: print(response.json())
RenderJson ==
    LET r == JsonLoads(Content) IN
    IF r.ok THEN out' = Printed("json", PyStr(r.val)) /\ Finish
    ELSE Except("JSONDecodeError")

\* The lines response.iter_lines() yields before it ends or raises.
Yielded == IterLines(Content, DropRaises)

TypeOK ==
    /\ pc \in {"load", "resolve", "post", "status", "iter", "done"}
    /\ exitStatus \in {-1, 0, 1}
    /\ idx \in 1..(Len(envFile.lines) + 1)
    /\ pos \in 1..(Len(Yielded) + 1)
    /\ stream \in BOOLEAN
    /\ \A i \in 1..Len(endpoint.hops) : endpoint.hops[i] \in Hops
    /\ Len(sent) <= RedirectLimit + 1

\* The state in which the script starts, for given sets of inputs.
InitWith(envs, files, endpoints, streams) ==
    /\ initEnv \in envs
    /\ envFile \in files
    /\ endpoint \in endpoints
    /\ stream \in streams
    /\ env = initEnv
    /\ idx = 1
    /\ api_key = None
    /\ sent = <<>>
    /\ pos = 1
    /\ out = <<>>
    /\ exitStatus = -1
    /\ pc = "load"

\* Lines 9-12: one line of the file.
LoadEnvLine ==
    /\ pc = "load"
    /\ idx <= envFile.readable
    /\ LET line == envFile.lines[idx] IN
       IF Assigns(line)
       THEN IF Rejected(KeyOf(line), ValueOf(line))
            THEN /\ WarnAndContinue("OSError/ValueError")
                 /\ UNCHANGED <<env, idx>>
            ELSE /\ env' = PutEnv(env, KeyOf(line), ValueOf(line))
                 /\ idx' = idx + 1
                 /\ UNCHANGED <<out, pc, exitStatus>>
       ELSE /\ idx' = idx + 1
            /\ UNCHANGED <<env, out, pc, exitStatus>>
    /\ UNCHANGED <<inputs, api_key, sent, pos>>

\* Lines 8-9 and 13-14: no further line can be read, because the file ended
\* or because opening or reading it failed.
LoadEnvEnd ==
    /\ pc = "load"
    /\ idx > envFile.readable
    /\ IF envFile.fails
       THEN WarnAndContinue("OSError")
       ELSE pc' = "resolve" /\ UNCHANGED <<out, exitStatus>>
    /\ UNCHANGED <<inputs, env, idx, api_key, sent, pos>>

\* Lines 16-39: the credential, and the banner with its first ten characters.
Resolve ==
    /\ pc = "resolve"
    /\ api_key' = EnvGet(env, KEY)
    /\ IF Missing(api_key')
       THEN /\ out' = Printed("missing", KEY)
            /\ exitStatus' = 1
            /\ pc' = "done"
       ELSE /\ out' = Printed("banner", Take(api_key'.value, 10))
            /\ pc' = "post"
            /\ UNCHANGED exitStatus
    /\ UNCHANGED <<inputs, env, idx, sent, pos>>

\* Line 42: requests.post. It follows redirects, up to the limit. Without
\* stream=True it reads the whole body, and raises where the library raises
\* for a connection that dropped.
Post ==
    /\ pc = "post"
    /\ sent' = sent \o SentByPost
    /\ IF TooManyRedirects THEN Except("TooManyRedirects")
       ELSE IF endpoint.refused THEN Except("ConnectionError")
       ELSE IF ~stream /\ DropRaises THEN Except("ChunkedEncodingError")
       ELSE pc' = "status" /\ UNCHANGED <<out, exitStatus>>
    /\ UNCHANGED <<inputs, env, idx, api_key, pos>>

\* Lines 43-45 and 50-51.
CheckStatus ==
    /\ pc = "status"
    /\ IF RaisesForStatus(endpoint.status) THEN Except("HTTPError")
       ELSE IF stream THEN pc' = "iter" /\ UNCHANGED <<out, exitStatus>>
       ELSE RenderJson
    /\ UNCHANGED <<inputs, env, idx, api_key, sent, pos>>

\* Lines 46-49: one line of the stream.
StreamLine ==
    /\ pc = "iter"
    /\ pos <= Len(Yielded)
    /\ LET line == Yielded[pos]
           decoded == Utf8Decode(line)
       IN IF ~Truthy(line)
          THEN pos' = pos + 1 /\ UNCHANGED <<out, pc, exitStatus>>
          ELSE IF decoded.ok
          THEN /\ out' = Printed("line", decoded.text)
               /\ pos' = pos + 1
               /\ UNCHANGED <<pc, exitStatus>>
          ELSE Except("UnicodeDecodeError") /\ UNCHANGED pos
    /\ UNCHANGED <<inputs, env, idx, api_key, sent>>

\* Line 46: the iteration ends, or raises for a connection that dropped.
StreamEnd ==
    /\ pc = "iter"
    /\ pos > Len(Yielded)
    /\ IF DropRaises THEN Except("ChunkedEncodingError")
       ELSE Finish /\ UNCHANGED out
    /\ UNCHANGED <<inputs, env, idx, api_key, sent, pos>>

Next ==
    \/ LoadEnvLine
    \/ LoadEnvEnd
    \/ Resolve
    \/ Post
    \/ CheckStatus
    \/ StreamLine
    \/ StreamEnd

\* Credentials files for the runs that vary the endpoint: one that cannot be
\* opened, an empty one, one that sets the required variable.
FewFiles ==
    { f \in EnvFiles({Ln(KEY \o <<"=", "a", "b", "c", "1", "2", "3">>)}, 1) :
        f.fails => f.readable = 0 }

\* The script as it is (stream = True, line 22), over the endpoints.
Init == InitWith({<<>>, [k \in {KEY} |-> EnvKeyValue]}, FewFiles, Endpoints, {TRUE})
Spec == Init /\ [][Next]_vars

\* The script with the flag of line 22 set either way: as it is (True), and
\* with line 22 changed to stream = False, which is what makes lines 50-51
\* run.
InitModes == InitWith({<<>>, [k \in {KEY} |-> EnvKeyValue]}, FewFiles, Endpoints, BOOLEAN)
SpecModes == InitModes /\ [][Next]_vars

\* The script as it is, over the credentials files and process environments.
InitEnvFiles ==
    InitWith(InitEnvs, EnvFiles(EnvLines, MaxEnvLines),
             {Refused, Response(200, JoinLines(<<<<97>>, <<>>, <<195, 169>>>>, <<10>>), FALSE, FALSE, 6)},
             {TRUE})
SpecEnv == InitEnvFiles /\ [][Next]_vars

----------------------------------------------------------------------------
(* Properties *)

IsWarning(e) == e.site = "warning"
IsError(e) == e.site = "error"
IsLine(e) == e.site = "line"
IsJson(e) == e.site = "json"
IsBody(e) == e.site \in {"line", "json"}

Warnings == SelectSeq(out, IsWarning)
Errors == SelectSeq(out, IsError)
BodyPrints == SelectSeq(out, IsBody)

\* text.encode("utf-8")
RECURSIVE Utf8Encode(_)
Utf8Encode(t) ==
    IF t = <<>> THEN <<>>
    ELSE LET c == Head(t) IN
         (IF c < 128 THEN <<c>>
          ELSE IF c < 2048 THEN <<192 + (c \div 64), 128 + (c % 64)>>
          ELSE IF c < 65536
               THEN <<224 + (c \div 4096), 128 + ((c \div 64) % 64), 128 + (c % 64)>>
          ELSE <<240 + (c \div 262144), 128 + ((c \div 4096) % 64),
                 128 + ((c \div 64) % 64), 128 + (c % 64)>>)
         \o Utf8Encode(Tail(t))

\* The bytes of what the loop of line 46 printed, line by line.
PrintedLineBytes ==
    LET ls == SelectSeq(out, IsLine) IN [i \in 1..Len(ls) |-> Utf8Encode(ls[i].text)]

HasBytes(line) == Len(line) > 0
NonEmptyLines(ls) == SelectSeq(ls, HasBytes)

IsUtf8(line) == Utf8Decode(line).ok

\* The last line terminator of b, 0 when it has none.
LastLineEnd(b) ==
    IF \E i \in 1..Len(b) : IsLineEnd(b[i])
    THEN CHOOSE i \in 1..Len(b) : IsLineEnd(b[i]) /\ \A j \in (i + 1)..Len(b) : ~IsLineEnd(b[j])
    ELSE 0

\* The lines that arrived whole before the connection dropped: those of the
\* received bytes up to the last line terminator among them.
WholeLines == SplitLines(Take(Content, LastLineEnd(Content)))

\* The lines that arrived: the whole ones when reading raised for the drop,
\* otherwise all of the bytes received (the unfinished last one included).
ArrivedLines == IF DropRaises THEN WholeLines ELSE SplitLines(Content)

\* The lines that arrived before the first one that is not UTF-8.
RECURSIVE BeforeBadLine(_)
BeforeBadLine(ls) ==
    IF ls = <<>> \/ ~IsUtf8(Head(ls)) THEN <<>> ELSE <<Head(ls)>> \o BeforeBadLine(Tail(ls))

KeyMissing(e) == KEY \notin DOMAIN e \/ e[KEY] = <<>>

Bearer(v) == <<"B", "e", "a", "r", "e", "r", " ">> \o v

\* requests.post returned a response.
Returned == sent # <<>> /\ ~endpoint.refused /\ ~TooManyRedirects

\* The request went out and a response with a status below 400 came back.
Answered == Returned /\ endpoint.status < 400

\* --- C1 -----------------------------------------------------------------
\* C1: once the loader has finished, if NVIDIA_API_KEY_KIMI is unset or empty
\* then no request is ever sent, the script is at the credential check or
\* has ended, and when it has ended its exit status is 1.
C1_MissingKeyExitsWithoutRequest ==
    (pc # "load" /\ KeyMissing(env)) =>
        /\ sent = <<>>
        /\ pc \in {"resolve", "done"}
        /\ pc = "done" => exitStatus = 1

\* The file emptied a variable the process had: exit 1, nothing sent.
C1_Witness ==
    /\ pc = "done" /\ exitStatus = 1 /\ sent = <<>>
    /\ ~KeyMissing(initEnv)
    /\ KEY \in DOMAIN env /\ env[KEY] = <<>>

\* --- C2 -----------------------------------------------------------------
\* C2: a response whose status is not a success (not 2xx) ends in exactly one
\* Error: message and nothing of the body printed, with the stream flag set
\* or not.
C2_NonSuccessPrintsError ==
    (pc = "done" /\ Returned /\ endpoint.status \notin 200..299) =>
        Len(Errors) = 1 /\ BodyPrints = <<>>

\* --- C3 -----------------------------------------------------------------
\* C3 as stated: in streaming mode, whatever lines the server sends before it
\* closes the connection, the script prints exactly the non-empty ones,
\* verbatim, once each and in order, and ends without an Error: message.
C3_AsStated ==
    (pc = "done" /\ stream /\ Answered /\ ~endpoint.dropped) =>
        /\ PrintedLineBytes = NonEmptyLines(SplitLines(endpoint.body))
        /\ Errors = <<>>

\* C3, amended: the same, for lines each of which is valid UTF-8.
C3_StreamPrintsNonEmptyLines ==
    (/\ pc = "done" /\ stream /\ Answered /\ ~endpoint.dropped
     /\ \A i \in 1..Len(SplitLines(endpoint.body)) : IsUtf8(SplitLines(endpoint.body)[i])) =>
        /\ PrintedLineBytes = NonEmptyLines(SplitLines(endpoint.body))
        /\ Errors = <<>>

\* The two data: lines with an empty line after each: both printed, in order.
C3_Witness ==
    /\ pc = "done" /\ stream /\ Answered /\ ~endpoint.dropped
    /\ Len(SplitLines(endpoint.body)) = 4
    /\ Len(PrintedLineBytes) = 2
    /\ PrintedLineBytes[1] = SplitLines(endpoint.body)[1]
    /\ PrintedLineBytes[2] = SplitLines(endpoint.body)[3]
    /\ PrintedLineBytes[1] # PrintedLineBytes[2]
    /\ Errors = <<>>

\* --- C4 -----------------------------------------------------------------
\* The lines C4 is about: not empty once trimmed, not starting with "#" once
\* trimmed, and with a "=".
C4Line(line) ==
    LET t == Strip(line) IN t # <<>> /\ Head(t) # "#" /\ Contains(t, "=")

\* The environment can hold the assignment of the line.
C4Settable(line) == ~Rejected(KeyOf(line), ValueOf(line))

\* C4: with a readable file, each such line that has a "=" and that the
\* environment can hold (a name that is not empty, no NUL character), when
\* the loader has dealt with it, has left the variable named before its first
\* "=" holding the text after it, whatever the variable held; and the loader
\* deals with every such line, whatever the other lines of the file are.
C4_AssignmentsSetVariables ==
    ~envFile.fails =>
        /\ (idx > 1 /\ C4Line(envFile.lines[idx - 1]) /\ C4Settable(envFile.lines[idx - 1])) =>
               /\ KeyOf(envFile.lines[idx - 1]) \in DOMAIN env
               /\ env[KeyOf(envFile.lines[idx - 1])] = ValueOf(envFile.lines[idx - 1])
        /\ pc # "load" =>
               \A i \in 1..Len(envFile.lines) :
                   (C4Line(envFile.lines[i]) /\ C4Settable(envFile.lines[i])) => i < idx

\* --- C5 -----------------------------------------------------------------
\* The lines C5 is about: empty once trimmed, or starting with "#" once trimmed.
C5Line(line) == Strip(line) = <<>> \/ Head(Strip(line)) = "#"

\* C5: the step that deals with such a line leaves the environment as it was.
C5_CommentsLeaveEnvironment ==
    [][(pc = "load" /\ idx <= envFile.readable /\ C5Line(envFile.lines[idx])) => env' = env]_vars

\* --- C6 -----------------------------------------------------------------
\* Opening or reading the file failed, and the loader got as far as that.
LoadFailed == envFile.fails /\ idx = envFile.readable + 1 /\ pc # "load"

C6Holds ==
    /\ pc # "done" \/ exitStatus = 0
    /\ pc \in {"status", "iter", "done"} =>
           Len(sent) = 1 /\ sent[1].authorization = Bearer(initEnv[KEY])

\* C6 as stated: after a failure to open or read the file, one warning is
\* printed and the script is past the loader; when the process had a
\* non-empty NVIDIA_API_KEY_KIMI, the script goes on (no exit status 1) and
\* sends the request with that value.
C6_AsStated ==
    LoadFailed =>
        /\ Len(Warnings) = 1
        /\ ~KeyMissing(initEnv) => C6Holds

\* C6, amended: the same, when no line read before the failure assigned
\* NVIDIA_API_KEY_KIMI.
C6_LoadFailureNotFatal ==
    LoadFailed =>
        /\ Len(Warnings) = 1
        /\ (/\ ~KeyMissing(initEnv)
            /\ \A i \in 1..envFile.readable :
                   ~(Assigns(envFile.lines[i]) /\ KeyOf(envFile.lines[i]) = KEY)) =>
               C6Holds

\* Reading failed after a line that assigned another variable; the request
\* went out with the credential of the process.
C6_Witness ==
    /\ pc = "done" /\ LoadFailed /\ envFile.readable = 1
    /\ env # initEnv
    /\ Len(Warnings) = 1
    /\ Len(sent) = 1 /\ sent[1].authorization = Bearer(EnvKeyValue)

\* --- C7 -----------------------------------------------------------------
\* C7: when the script has ended its exit status is 1 if the credential was
\* missing after loading and 0 otherwise, also after an Error: message.
C7_ExitStatus ==
    pc = "done" => exitStatus = (IF KeyMissing(env) THEN 1 ELSE 0)

\* A body that is not JSON, read without streaming: Error:, exit status 0.
C7_Witness ==
    /\ pc = "done" /\ exitStatus = 0
    /\ Len(Errors) = 1 /\ Errors[1].text = "JSONDecodeError"

\* --- C8 -----------------------------------------------------------------
\* The body is one JSON document and came with a success status.
JsonAnswer ==
    /\ Returned /\ ~endpoint.dropped
    /\ endpoint.status \in 200..299
    /\ JsonLoads(endpoint.body).ok

C8Holds ==
    /\ Errors = <<>>
    /\ Len(BodyPrints) = 1
    /\ BodyPrints[1].text = PyStr(JsonLoads(endpoint.body).val)

\* C8 as stated: such an execution ends having printed the parsed document
\* once and no Error: message.
C8_AsStated == (pc = "done" /\ JsonAnswer) => C8Holds

\* C8, amended: the same, with the stream flag off; and nothing of the
\* response is printed before the script ends.
C8_JsonPrintedOnce ==
    (~stream /\ JsonAnswer) =>
        /\ pc = "done" => C8Holds
        /\ pc # "done" => BodyPrints = <<>>

\* {"choices":[{"message":{"content":"hi"}}]} read without streaming is
\* printed as {'choices': [{'message': {'content': 'hi'}}]}.
C8_Witness ==
    /\ pc = "done" /\ ~stream /\ JsonAnswer
    /\ Len(endpoint.body) = 42
    /\ Len(BodyPrints) = 1
    /\ BodyPrints[1].text =
         <<123, 39, 99, 104, 111, 105, 99, 101, 115, 39, 58, 32, 91, 123, 39, 109, 101,
           115, 115, 97, 103, 101, 39, 58, 32, 123, 39, 99, 111, 110, 116, 101, 110,
           116, 39, 58, 32, 39, 104, 105, 39, 125, 125, 93, 125>>

\* --- C9 -----------------------------------------------------------------
\* C9: at most one HTTP request is sent in an execution.
C9_AtMostOneRequest == Len(sent) <= 1

\* --- C10 ----------------------------------------------------------------
C10Holds(arrived) ==
    /\ \E k \in 0..Len(arrived) :
           PrintedLineBytes = NonEmptyLines(SubSeq(arrived, 1, k))
    /\ pc = "done" =>
           /\ PrintedLineBytes = NonEmptyLines(BeforeBadLine(arrived))
           /\ Len(Errors) = 1
           /\ IsError(out[Len(out)])
    /\ pc # "done" => Errors = <<>>

HasBadLine(ls) == \E i \in 1..Len(ls) : HasBytes(ls[i]) /\ ~IsUtf8(ls[i])

\* C10 as stated: when lines have arrived and the connection then drops in
\* the middle of the stream, or one of them is not UTF-8, what is printed of
\* the response is the non-empty lines of a prefix of the lines that arrived
\* whole, in order, and exactly one Error: message follows, as the last thing
\* printed.
C10_AsStated ==
    (/\ stream /\ Answered /\ WholeLines # <<>>
     /\ endpoint.dropped \/ HasBadLine(WholeLines)) =>
        C10Holds(WholeLines)

\* The stream fails for the script: reading raises for a connection that
\* dropped, or a line that iter_lines hands over is not UTF-8.
StreamFails == stream /\ Answered /\ (DropRaises \/ HasBadLine(ArrivedLines))

\* C10, amended: when the stream fails with an exception in the loop of line
\* 46 (the library raises for the dropped connection, or a line is not
\* UTF-8), what is printed of the response is at every moment the non-empty
\* lines of a prefix of the lines that arrived, in order; when the script has
\* ended that prefix is the lines before the failure (all that arrived whole,
\* or those before the line that is not UTF-8), and exactly one Error:
\* message follows, as the last thing printed.
C10_FailedStreamPrintsPrefix == StreamFails => C10Holds(ArrivedLines)

\* The connection dropped inside the second line and reading raised: the
\* first line is printed, the unfinished one is not, then the error.
C10_Witness ==
    /\ pc = "done" /\ StreamFails /\ DropRaises
    /\ Len(SplitLines(Content)) = 2 /\ Len(ArrivedLines) = 1
    /\ PrintedLineBytes = ArrivedLines
    /\ Len(Errors) = 1 /\ Errors[1].text = "ChunkedEncodingError"
    /\ IsError(out[Len(out)])

====
